---- MODULE Spec2Model ----
(***************************************************************************)
(* Market-data acquisition of src/app.py: the page handler's cache lookup, *)
(* get_crypto_data, get_spx_data (Yahoo Finance -> Alpha Vantage ->        *)
(* simulated data) and the provider adapters.                              *)
(*                                                                         *)
(* A DataFrame is a sequence of bars [timestamp, open, high, low, close,   *)
(* volume].  Prices are integers (one unit = 0.01).  Timestamps are small  *)
(* integers (bar slots).  What a function hands back is an outcome record: *)
(* a DataFrame, None, or a raised exception.                               *)
(***************************************************************************)
EXTENDS Integers, Sequences, FiniteSets, TLC

(* ------------------------------ bounds --------------------------------- *)
\* longest provider payload (rows / candles / items)
MaxRows == 2
\* largest `limit` argument
MaxLimit == 2
\* largest timestamp a provider row carries
MaxTs == 3

(* --------------------------- outcome records --------------------------- *)
Df(rows) == [kind |-> "df", rows |-> rows]
None == [kind |-> "none", rows |-> <<>>]
Raise == [kind |-> "raise", rows |-> <<>>]

\* try: body / except Exception: handler
Catch(body, handler) == IF body.kind = "raise" THEN handler ELSE body

(* ------------------------------ inputs --------------------------------- *)
SeqsUpTo(S, n) == UNION {[1..k -> S] : k \in 0..n}

\* numeric OHLCV payloads a provider may send for one bar
Quotes ==
  { [open |-> 2, high |-> 3, low |-> 1, close |-> 2, volume |-> 1],
    [open |-> 0, high |-> 0, low |-> 0, close |-> 0, volume |-> 0] }

\* one row of a provider payload: "ok" carries numbers; "nan" has a null
\* close; "missing" lacks the close field; "junk" holds a value float()
\* cannot convert
Row(kind, ts, q) ==
  [kind |-> kind, timestamp |-> ts, open |-> q.open, high |-> q.high,
   low |-> q.low, close |-> q.close, volume |-> q.volume]

GoodQuote == CHOOSE q \in Quotes : q.close > 0

RowsOfKinds(kinds) ==
  {Row("ok", ts, q) : ts \in 1..MaxTs, q \in Quotes}
    \cup {Row(k, ts, GoodQuote) : k \in kinds \ {"ok"}, ts \in 1..MaxTs}

Bar(r) ==
  [timestamp |-> r.timestamp, open |-> r.open, high |-> r.high,
   low |-> r.low, close |-> r.close, volume |-> r.volume]

\* an HTTP exchange: the call raised, or it answered with a status and a body
Response(net, status, body, rows) ==
  [net |-> net, status |-> status, body |-> body, rows |-> rows]

FailedResponses(bodies) ==
  {Response("error", 0, "", <<>>), Response("ok", 500, "", <<>>)}
    \cup {Response("ok", 200, b, <<>>) : b \in bodies}

Responses(bodies, rowSet) ==
  FailedResponses(bodies)
    \cup {Response("ok", 200, "rows", s) : s \in SeqsUpTo(rowSet, MaxRows)}

Symbols == {"SPX", "BTC/USDT"}
Timeframes == {"1h", "4h", "1mo"}
Limits == 1..MaxLimit

(* --------------------------- DataFrame helpers ------------------------- *)
RECURSIVE Insert(_, _)
Insert(b, s) ==
  IF s = <<>> THEN <<b>>
  ELSE IF b.timestamp < Head(s).timestamp THEN <<b>> \o s
  ELSE <<Head(s)>> \o Insert(b, Tail(s))

\* df.sort_values('timestamp')
RECURSIVE SortValues(_)
SortValues(s) ==
  IF s = <<>> THEN <<>>
  ELSE Insert(s[Len(s)], SortValues(SubSeq(s, 1, Len(s) - 1)))

\* if len(df) > limit: df = df.tail(limit)
TailLimit(s, limit) ==
  IF Len(s) > limit THEN SubSeq(s, Len(s) - limit + 1, Len(s)) ELSE s

MapSeq(s, Op(_)) == [i \in 1..Len(s) |-> Op(s[i])]

(* ------------------------------ get_spx_data --------------------------- *)
\* yf_timeframe = {...}.get(timeframe, '1d')
YfTimeframe(timeframe) ==
  CASE timeframe \in {"1m", "5m", "15m", "30m", "1h", "4h", "1d", "1mo"} -> timeframe
    [] timeframe = "1w" -> "1wk"
    [] OTHER -> "1d"

Max(a, b) == IF a >= b THEN a ELSE b
Min(a, b) == IF a <= b THEN a ELSE b

RECURSIVE SumVolume(_)
SumVolume(s) == IF s = <<>> THEN 0 ELSE Head(s).volume + SumVolume(Tail(s))

RECURSIVE SortedBins(_)
SortedBins(S) ==
  IF S = {} THEN <<>>
  ELSE LET m == CHOOSE x \in S : \A y \in S : x <= y
       IN <<m>> \o SortedBins(S \ {m})

\* df.set_index('timestamp').resample('4H').agg(first/max/min/last/sum)
\*   .dropna().reset_index(), one timestamp unit being one hour
Resample4H(df) ==
  LET bin(b) == b.timestamp \div 4
      bins == SortedBins({bin(df[i]) : i \in 1..Len(df)})
      InBin(k) == SelectSeq(df, LAMBDA b : bin(b) = k)
      Agg(k) ==
        LET g == InBin(k)
        IN [timestamp |-> 4 * k,
            open |-> g[1].open,
            high |-> CHOOSE h \in {g[i].high : i \in 1..Len(g)} :
                       \A j \in 1..Len(g) : g[j].high <= h,
            low |-> CHOOSE l \in {g[i].low : i \in 1..Len(g)} :
                      \A j \in 1..Len(g) : l <= g[j].low,
            close |-> g[Len(g)].close,
            volume |-> SumVolume(g)]
  IN MapSeq(bins, Agg)

YahooBodies == {"notjson", "nochart", "nofield"}
YahooRows == RowsOfKinds({"ok", "nan"})
YahooResponses == Responses(YahooBodies, YahooRows)

\* the try block: Yahoo Finance chart API
spx_yahoo(timeframe, limit, resp) ==
  IF resp.net = "error" THEN Raise              \* requests.get raised
  ELSE IF resp.status # 200 THEN Raise          \* raise Exception(status)
  ELSE IF resp.body # "rows" THEN Raise         \* json(), 'chart', quote keys
  ELSE
    LET df_data == MapSeq(SelectSeq(resp.rows, LAMBDA r : r.kind # "nan"), Bar)
        df == IF timeframe = "4h" /\ YfTimeframe(timeframe) = "1h"
              THEN Resample4H(df_data) ELSE df_data
    IN Df(TailLimit(df, limit))

AlphaBodies == {"notjson", "nokey"}
AlphaRows == RowsOfKinds({"ok", "missing", "junk"})
\* time_series is a dict: its keys (the dates) are distinct
DistinctTs(s) == \A i, j \in 1..Len(s) : i # j => s[i].timestamp # s[j].timestamp
AlphaResponses ==
  FailedResponses(AlphaBodies)
    \cup {Response("ok", 200, "rows", s) :
            s \in {t \in SeqsUpTo(AlphaRows, MaxRows) : t # <<>> /\ DistinctTs(t)}}

\* float(values.get('4. close', 0)): an absent close reads as 0
AlphaBar(r) == IF r.kind = "missing" THEN [Bar(r) EXCEPT !.close = 0] ELSE Bar(r)

\* the inner try block: Alpha Vantage; None stands for leaving the block
\* without a return
spx_alpha_vantage(timeframe, limit, resp) ==
  Catch(
    IF resp.net = "error" THEN Raise
    ELSE IF resp.status # 200 THEN None
    ELSE IF resp.body = "notjson" THEN Raise
    ELSE IF resp.body # "rows" \/ resp.rows = <<>> THEN None
    ELSE IF \E i \in 1..Len(resp.rows) : resp.rows[i].kind = "junk" THEN Raise
    ELSE Df(TailLimit(SortValues(MapSeq(resp.rows, AlphaBar)), limit)),
    None)

\* pd.date_range(end=now, periods=limit, freq=timeframe): '1mo' is no pandas
\* frequency alias
DateRangeAccepts(timeframe) == timeframe # "1mo"

\* 5400 + random.uniform(-100, 100)
BasePrices == {540000}
\* per bar: random.uniform(-1, 1) for the change, and the open/high/low draws
\* in units of their widths (0.005, 0.01, 0.01)
Draws == [change : {-1, 1}, open : {0}, high : {0, 1}, low : {0, 1}]

\* price after step i (0-based) of: change = price*0.01*u; trend =
\* price*0.0005*(i - limit/2); price = price + change + trend
StepPrice(price, i, limit, d) ==
  price + (price * d.change) \div 100 + (price * 5 * (2 * i - limit)) \div 20000

RECURSIVE Walk(_, _, _, _)
\* the list of running prices, draws[i+1] being used at step i
Walk(price, i, limit, draws) ==
  IF i >= limit THEN <<>>
  ELSE LET p == StepPrice(price, i, limit, draws[i + 1])
       IN <<p>> \o Walk(p, i + 1, limit, draws)

\* the simulated data at the end of the except block
spx_simulated(timeframe, limit, base_price, draws) ==
  IF ~DateRangeAccepts(timeframe) THEN Raise
  ELSE
    LET prices == Walk(base_price, 0, limit, draws)
        bar(i) ==
          LET p == Max(1, prices[i])            \* max(0.01, price)
              d == draws[i]
          IN [timestamp |-> i,
              close |-> p,
              open |-> p + (p * 5 * d.open) \div 1000,
              high |-> p + (p * d.high) \div 100,
              low |-> p - (p * d.low) \div 100,
              volume |-> 200000000]
    IN Df([i \in 1..limit |-> bar(i)])

(* --------------------------- provider adapters ------------------------- *)
\* symbol.split('/') for the symbols of the model
SymbolParts(symbol) ==
  CASE symbol = "BTC/USDT" -> <<"BTC", "USDT">>
    [] OTHER -> <<symbol>>

\* base, quote = symbol.split('/') raises ValueError unless there are two parts
SplitsInTwo(symbol) == Len(SymbolParts(symbol)) = 2

HasKind(rows, kind) == \E i \in 1..Len(rows) : rows[i].kind = kind
OkBars(rows) == MapSeq(SelectSeq(rows, LAMBDA r : r.kind = "ok"), Bar)

SmitheryBodies == {"notjson", "notlist"}
SmitheryItems == RowsOfKinds({"ok", "missing", "junk"})
SmitheryResponses == Responses(SmitheryBodies, SmitheryItems)

\* items lacking a key are skipped, float() of a junk value raises; the
\* timestamp unit (ms or s) is chosen once from the first row, so the
\* conversion keeps the order of the raw timestamps
get_smithery_mcp_crypto_price(symbol, timeframe, limit, resp) ==
  Catch(
    IF ~SplitsInTwo(symbol) THEN Raise
    ELSE IF resp.net = "error" THEN Raise
    ELSE IF resp.status # 200 THEN None
    ELSE IF resp.body = "notjson" THEN Raise
    ELSE IF resp.body # "rows" \/ resp.rows = <<>> THEN None
    ELSE IF HasKind(resp.rows, "junk") THEN Raise
    ELSE IF OkBars(resp.rows) = <<>> THEN None
    ELSE Df(TailLimit(SortValues(OkBars(resp.rows)), limit)),
    None)

\* an exchange-rate answer of Crypto APIs
RateResponse(net, status, body, rate) ==
  [net |-> net, status |-> status, body |-> body, rate |-> rate]
Rates == {0, 6700000}
RateResponses ==
  {RateResponse("error", 0, "", 0), RateResponse("ok", 500, "", 0),
   RateResponse("ok", 200, "notjson", 0), RateResponse("ok", 200, "noitem", 0)}
    \cup {RateResponse("ok", 200, "rate", r) : r \in Rates}

NoRate == [kind |-> "none", rate |-> 0]
RateRaise == [kind |-> "raise", rate |-> 0]
Rate(r) == [kind |-> "rate", rate |-> r]

\* method 1: a rate is kept only if it is > 0
cryptoapis_method1(resp) ==
  IF resp.net = "error" \/ (resp.status = 200 /\ resp.body = "notjson") THEN RateRaise
  ELSE IF resp.status # 200 \/ resp.body # "rate" THEN NoRate
  ELSE IF resp.rate > 0 THEN Rate(resp.rate) ELSE NoRate

\* method 2: the rate is taken as it comes
cryptoapis_method2(resp) ==
  IF resp.net = "error" \/ (resp.status = 200 /\ resp.body = "notjson") THEN RateRaise
  ELSE IF resp.status # 200 \/ resp.body # "rate" THEN NoRate
  ELSE Rate(resp.rate)

\* method 3: the asset's USD price; for a quote other than USD/USDT/USDC it is
\* divided by the quote's USD price (resp4), when that is > 0
cryptoapis_method3(quote, resp, resp4) ==
  IF resp.net = "error" \/ (resp.status = 200 /\ resp.body = "notjson") THEN RateRaise
  ELSE IF resp.status # 200 \/ resp.body # "rate" THEN NoRate
  ELSE IF quote \in {"USD", "USDT", "USDC"} THEN Rate(resp.rate)
  ELSE IF resp4.net = "error" \/ (resp4.status = 200 /\ resp4.body = "notjson") THEN RateRaise
  ELSE IF resp4.status # 200 \/ resp4.body # "rate" THEN NoRate
  ELSE IF resp4.rate > 0 THEN Rate(resp.rate \div resp4.rate) ELSE NoRate

\* backup_prices.get(base, 100); the entries below one unit are left out
BackupPrice(base) ==
  CASE base = "BTC" -> 6700000
    [] base = "ETH" -> 320000
    [] base = "SOL" -> 16500
    [] base = "BNB" -> 56000
    [] OTHER -> 10000

\* the generated series: every bar is rate * (1 +- 0.5%), with open/high/low
\* drawn around it; current_price is never advanced
cryptoapis_bars(rate, limit, draws) ==
  LET bar(i) ==
        LET d == draws[i]
            price == rate + (rate * 5 * d.change) \div 1000
        IN [timestamp |-> i,
            open |-> price - (price * 2 * d.open) \div 1000,
            high |-> price + (price * 3 * d.high) \div 1000,
            low |-> price - (price * 3 * d.low) \div 1000,
            close |-> price,
            volume |-> price * 10]
  IN [i \in 1..limit |-> bar(i)]

\* the rate the three methods end with, or "raise"
cryptoapis_rate(symbol, r1, r2, r3, r4) ==
  LET m1 == cryptoapis_method1(r1)
      m2 == IF m1.kind = "none" THEN cryptoapis_method2(r2) ELSE m1
      m3 == IF m2.kind = "none"
            THEN cryptoapis_method3(SymbolParts(symbol)[2], r3, r4) ELSE m2
  IN m3

get_cryptoapis_price(symbol, timeframe, limit, r1, r2, r3, r4, draws) ==
  Catch(
    IF ~SplitsInTwo(symbol) THEN Raise
    ELSE
      LET m == cryptoapis_rate(symbol, r1, r2, r3, r4)
      IN IF m.kind = "raise" THEN Raise
         ELSE LET rate == IF m.kind = "none" \/ m.rate <= 0
                          THEN BackupPrice(SymbolParts(symbol)[1]) ELSE m.rate
              IN Df(cryptoapis_bars(rate, limit, draws)),
    None)

\* what one fetch_ohlcv call of ccxt ends with
ExchangeRows == RowsOfKinds({"ok", "nan"})
FetchOutcome(kind, rows) == [kind |-> kind, rows |-> rows]
FetchErrors == {"ddos", "ratelimit", "network", "other"}
FetchOutcomes ==
  {FetchOutcome(e, <<>>) : e \in FetchErrors}
    \cup {FetchOutcome("rows", s) : s \in SeqsUpTo(ExchangeRows, MaxRows)}

\* df['close'].isna().any() or df['close'].eq(0).any()
InvalidCloses(rows) ==
  \E i \in 1..Len(rows) : rows[i].kind = "nan" \/ rows[i].close = 0

\* binance_mirrors, max_retries, the fallback exchanges
NumMirrors == 8
max_retries == 3
NumExchanges == 5

\* the same pass with a network error handled like the other errors
binance_attempt_retry_all(retry_count, o) ==
  IF o.kind = "rows" THEN
    IF o.rows = <<>> THEN "break"
    ELSE IF InvalidCloses(o.rows) THEN "retry"
    ELSE "return"
  ELSE "retry"

\* one pass of the while loop body for a mirror: "return", "retry" (stay on
\* the mirror with retry_count + 1) or "break" (next mirror)
binance_attempt(retry_count, o) ==
  IF o.kind = "rows" THEN
    IF o.rows = <<>> THEN "break"
    ELSE IF InvalidCloses(o.rows) THEN "retry"
    ELSE "return"
  ELSE IF o.kind \in {"ddos", "ratelimit"} THEN "retry"
  ELSE IF o.kind = "network" THEN "break"
  ELSE IF retry_count + 1 >= max_retries THEN "break" ELSE "retry"

\* one pass of the for loop over the fallback exchanges
exchange_attempt(o) ==
  IF o.kind = "rows" /\ o.rows # <<>> /\ ~InvalidCloses(o.rows)
  THEN "return" ELSE "continue"

\* get_binance_price: except Exception: return None
get_binance_price_except(out) == Catch(out, None)

\* DexScreener candles carry the timeframe they belong to
CandleTimeframes == {"1h", "1d", "none"}
Candle(tf, r) == [tf |-> tf, row |-> r]
Candles == {Candle(tf, r) : tf \in CandleTimeframes, r \in RowsOfKinds({"ok"})}
PairResponses == FailedResponses({"notjson", "nopairs"}) \cup {Response("ok", 200, "pairs", <<>>)}
CandleResponses == Responses({"notjson", "nocandles"}, Candles)

\* target_timeframe = {...}.get(timeframe, '1d')
DexTargetTimeframe(timeframe) ==
  IF timeframe \in {"15m", "1h", "4h", "1d", "1w"} THEN timeframe ELSE "1d"

timeframe_priority == <<"15m", "1h", "4h", "1d", "1w">>

\* the candles of the target timeframe; if there are none, those of the first
\* timeframe of timeframe_priority that is present
FilterCandles(candles, timeframe) ==
  LET OfTf(tf) == SelectSeq(candles, LAMBDA c : c.tf = tf)
      target == DexTargetTimeframe(timeframe)
      available == {candles[i].tf : i \in 1..Len(candles)} \ {"none"}
      present == {k \in 1..Len(timeframe_priority) : timeframe_priority[k] \in available}
      first == CHOOSE k \in present : \A j \in present : k <= j
  IN IF OfTf(target) # <<>> THEN OfTf(target)
     ELSE IF present # {} THEN OfTf(timeframe_priority[first])
     ELSE <<>>

\* the inner try block: pair search, candles, filter, sort, truncate
dexscreener_candles(timeframe, limit, pairResp, candleResp) ==
  IF pairResp.net = "error" \/ pairResp.status # 200 \/ pairResp.body # "pairs" THEN Raise
  ELSE IF candleResp.net = "error" \/ candleResp.status # 200
          \/ candleResp.body # "rows" \/ candleResp.rows = <<>> THEN Raise
  ELSE
    LET filtered == MapSeq(FilterCandles(candleResp.rows, timeframe), LAMBDA c : Bar(c.row))
        sorted == SortValues(filtered)
    IN Df(TailLimit(sorted, limit))

\* except: ccxt.binance().fetch_ohlcv, the rows taken as they come
dexscreener_ccxt(o) == IF o.kind = "rows" THEN Df(MapSeq(o.rows, Bar)) ELSE Raise

CcxtOutcomes ==
  {FetchOutcome("other", <<>>)}
    \cup {FetchOutcome("rows", s) : s \in SeqsUpTo(RowsOfKinds({"ok"}), MaxRows)}

GeckoResponses == Responses({"notjson"}, RowsOfKinds({"ok"}))

\* ohlcv_data[::step]
RECURSIVE EveryNth(_, _)
EveryNth(s, step) ==
  IF s = <<>> THEN <<>>
  ELSE <<Head(s)>> \o EveryNth(SubSeq(s, Min(step, Len(s)) + 1, Len(s)), step)

\* CoinGecko gives a price and a volume per point; open, high and low are
\* drawn around the price.  None stands for falling through to the simulation
dexscreener_coingecko(timeframe, limit, resp, draws) ==
  Catch(
    IF resp.net = "error" THEN Raise
    ELSE IF resp.status # 200 THEN None
    ELSE IF resp.body # "rows" THEN Raise
    ELSE
      LET point(i) ==
            LET price == resp.rows[i].close
                d == draws[i]
            IN [timestamp |-> resp.rows[i].timestamp,
                open |-> price - (price * d.open) \div 100,
                high |-> price + (price * 15 * d.high) \div 1000,
                low |-> price - (price * 15 * d.low) \div 1000,
                close |-> price,
                volume |-> resp.rows[i].volume]
          ohlcv_data == [i \in 1..Len(resp.rows) |-> point(i)]
          filtered == IF timeframe = "4h" THEN EveryNth(ohlcv_data, 4) ELSE ohlcv_data
      IN Df(TailLimit(filtered, limit)),
    None)

\* base price and volatility (percent) of the simulated series
DexBasePrice(symbol) == IF symbol = "BTC/USDT" THEN 6850000 ELSE 10000
DexVolatility(symbol) == IF symbol = "BTC/USDT" THEN 3 ELSE 5

RECURSIVE DexWalk(_, _, _, _, _)
DexWalk(price, i, limit, vol, draws) ==
  IF i >= limit THEN <<>>
  ELSE LET p == price + (price * vol * draws[i + 1].change) \div 100
                  + (price * (2 * i - limit)) \div 2000
       IN <<p>> \o DexWalk(p, i + 1, limit, vol, draws)

\* the simulated data when every API failed; pd.date_range may raise
dexscreener_simulated(symbol, timeframe, limit, draws) ==
  IF ~DateRangeAccepts(timeframe) THEN Raise
  ELSE
    LET prices == DexWalk(DexBasePrice(symbol), 0, limit, DexVolatility(symbol), draws)
        bar(i) ==
          LET p == Max(1, prices[i])          \* max(0.000001, price)
              d == draws[i]
          IN [timestamp |-> i,
              close |-> p,
              open |-> p + (p * d.open) \div 100,
              high |-> p + (p * 2 * d.high) \div 100,
              low |-> p - (p * 2 * d.low) \div 100,
              volume |-> p * 5]                \* p * 500000, in units of 100000
    IN Df([i \in 1..limit |-> bar(i)])

\* the outer handler left out: an exception of the body leaves the function
get_dexscreener_data_unguarded(out) == out

\* get_dexscreener_data: except Exception: return None
get_dexscreener_data_except(out) == Catch(out, None)

(* ------------------------------- state --------------------------------- *)
VARIABLES
  price_data,   \* st.session_state.price_data: cache key -> DataFrame
  req,          \* arguments of the request being served (or last served)
  pc,           \* where the request stands
  calls,        \* data sources invoked for the request, in order
  result,       \* what the page got back (df), once pc = "done"
  prev,         \* history: the request served before this one, with its result
  adapter,      \* the provider adapter being run on its own, and where it stands
  feed,         \* history: what the adapter's provider gave it
  adapterOut,   \* what the adapter handed back, once adapter.pc = "done"
  call,         \* the last call of a validator or analysis function: arguments and return
  alerts        \* the schedulers created so far, the module-level name, the session flags

pageVars == <<price_data, req, pc, calls, result, prev>>
adapterVars == <<adapter, feed, adapterOut>>
vars == <<price_data, req, pc, calls, result, prev, adapter, feed, adapterOut, call, alerts>>

NoReq == [symbol |-> "", timeframe |-> "", limit |-> 0]
NoPrev == [req |-> NoReq, result |-> None]
Feed(failed, origin, rows) == [failed |-> failed, origin |-> origin, rows |-> rows]
NoFeed == Feed(FALSE, "", <<>>)
Idle ==
  [name |-> "", pc |-> "idle", symbol |-> "", timeframe |-> "", limit |-> 0,
   mirror |-> 0, retry_count |-> 0, exchange |-> 0,
   history |-> FALSE, fetches |-> 0, last |-> ""]

\* no validator or analysis function has been called yet
NoCall == [fn |-> ""]

\* a BackgroundScheduler() just constructed
NewScheduler == [running |-> FALSE, job |-> FALSE]
\* neither start_auto_alerts nor stop_auto_alerts has returned in this run
NoReturn == [fn |-> "", value |-> FALSE, flag_before |-> FALSE]
\* the first run of the script has bound `scheduler` and set the session
\* defaults; no job has been triggered
NoAlerts ==
  [instances |-> <<NewScheduler>>, scheduler |-> 1, auto_alert_running |-> FALSE,
   whatsapp_phone |-> FALSE, returned |-> NoReturn, fired |-> 0]

\* cache_key = f"{selected_symbol}_{selected_timeframe}"
CacheKey(symbol, timeframe) == <<symbol, timeframe>>

\* if "price_data" not in st.session_state: st.session_state.price_data = {}
Init ==
  /\ price_data = <<>>
  /\ req = NoReq
  /\ pc = "idle"
  /\ calls = <<>>
  /\ result = None
  /\ prev = NoPrev
  /\ adapter = Idle
  /\ feed = NoFeed
  /\ adapterOut = None
  /\ call = NoCall
  /\ alerts = NoAlerts

\* the crypto pairs sent to the crypto adapters, as before the SPX-only version
get_crypto_data_route_by_symbol(symbol) ==
  IF symbol \in {"SPX", "S&P500", "SP500", "^GSPC", "^SPX"}
  THEN "get_spx_data" ELSE "crypto"

\* get_crypto_data: which fetch a symbol is routed to
get_crypto_data_route(symbol) ==
  IF symbol \in {"SPX", "S&P500", "SP500", "^GSPC", "^SPX"}
  THEN "get_spx_data" ELSE "get_spx_data"

\* get_crypto_data: except Exception: return None
get_crypto_data_except(out) == Catch(out, None)

\* the page: cached DataFrame if the key is in price_data, else get_crypto_data
FetchForPage(symbol, timeframe, limit, record) ==
  /\ pc \in {"idle", "done"}
  /\ req' = [symbol |-> symbol, timeframe |-> timeframe, limit |-> limit]
  /\ prev' = IF record /\ pc = "done" THEN [req |-> req, result |-> result] ELSE prev
  /\ calls' = <<>>
  /\ IF CacheKey(symbol, timeframe) \in DOMAIN price_data
     THEN /\ result' = Df(price_data[CacheKey(symbol, timeframe)])
          /\ pc' = "done"
     ELSE /\ result' = None
          /\ pc' = IF get_crypto_data_route(symbol) = "get_spx_data"
                   THEN "yahoo" ELSE "crypto"
  /\ UNCHANGED <<price_data, adapterVars, call, alerts>>

Called(source, out) == [adapter |-> source, supplied |-> out.kind = "df"]

\* the except block entered whatever the try block returned
AfterYahoo_always_fallback(out) == "alphavantage"

\* get_spx_data: return df from the try block, else enter the except block
AfterYahoo(out) == IF out.kind = "df" THEN "done" ELSE "alphavantage"

\* get_spx_data: return df from the inner try block, else fall to the simulation
AfterAlpha(out) == IF out.kind = "df" THEN "done" ELSE "synthetic"

YahooCall ==
  /\ pc = "yahoo"
  /\ \E resp \in YahooResponses :
       LET out == spx_yahoo(req.timeframe, req.limit, resp)
       IN /\ calls' = Append(calls, Called("yahoo", out))
          /\ pc' = AfterYahoo(out)
          /\ result' = IF out.kind = "df" THEN out ELSE result
  /\ UNCHANGED <<price_data, req, prev, adapterVars, call, alerts>>

AlphaCall ==
  /\ pc = "alphavantage"
  /\ \E resp \in AlphaResponses :
       LET out == spx_alpha_vantage(req.timeframe, req.limit, resp)
       IN /\ calls' = Append(calls, Called("alphavantage", out))
          /\ pc' = AfterAlpha(out)
          /\ result' = IF out.kind = "df" THEN out ELSE result
  /\ UNCHANGED <<price_data, req, prev, adapterVars, call, alerts>>

SimulatedCall ==
  /\ pc = "synthetic"
  /\ \E base_price \in BasePrices, draws \in [1..req.limit -> Draws] :
       LET out == spx_simulated(req.timeframe, req.limit, base_price, draws)
       IN /\ calls' = Append(calls, Called("synthetic", out))
          /\ result' = get_crypto_data_except(out)
  /\ pc' = "done"
  /\ UNCHANGED <<price_data, req, prev, adapterVars, call, alerts>>

Fetch(record) ==
  \E symbol \in Symbols, timeframe \in Timeframes, limit \in Limits :
    FetchForPage(symbol, timeframe, limit, record)

Next == Fetch(FALSE) \/ YahooCall \/ AlphaCall \/ SimulatedCall

Spec == Init /\ [][Next]_vars

\* the same session, remembering the request served before the current one
NextSession == Fetch(TRUE) \/ YahooCall \/ AlphaCall \/ SimulatedCall

SpecSession == Init /\ [][NextSession]_vars

(* ------------------------ adapters run on their own -------------------- *)
AdapterNames == {"yahoo", "alphavantage", "smithery", "cryptoapis", "binance", "dexscreener"}

\* a call of one adapter with (symbol, timeframe, limit)
Invoke(name, symbol, timeframe, limit) ==
  /\ adapter.pc \in {"idle", "done"}
  /\ adapter' = [name |-> name, pc |-> "called", symbol |-> symbol,
                 timeframe |-> timeframe, limit |-> limit,
                 mirror |-> 1, retry_count |-> 0, exchange |-> 1,
                 history |-> FALSE, fetches |-> 0, last |-> ""]
  /\ feed' = NoFeed
  /\ adapterOut' = None
  /\ UNCHANGED <<pageVars, call, alerts>>

Returns(out, fd) ==
  /\ adapter' = [adapter EXCEPT !.pc = "done"]
  /\ adapterOut' = out
  /\ feed' = fd
  /\ UNCHANGED <<pageVars, call, alerts>>

Goes(stage) ==
  /\ adapter' = [adapter EXCEPT !.pc = stage]
  /\ UNCHANGED <<adapterOut, feed, pageVars, call, alerts>>

At(name, stage) == adapter.name = name /\ adapter.pc = stage

\* the bars an HTTP answer carries, as the adapter reads them
Parsed(resp) ==
  IF resp.net = "ok" /\ resp.status = 200 /\ resp.body = "rows" /\ ~HasKind(resp.rows, "junk")
  THEN SelectSeq(resp.rows, LAMBDA r : r.kind # "nan")
  ELSE <<>>

YahooRun ==
  /\ At("yahoo", "called")
  /\ \E resp \in YahooResponses :
       Returns(spx_yahoo(adapter.timeframe, adapter.limit, resp),
               Feed(Parsed(resp) = <<>>, "provider", MapSeq(Parsed(resp), Bar)))

AlphaRun ==
  /\ At("alphavantage", "called")
  /\ \E resp \in AlphaResponses :
       Returns(spx_alpha_vantage(adapter.timeframe, adapter.limit, resp),
               Feed(Parsed(resp) = <<>>, "provider", MapSeq(Parsed(resp), AlphaBar)))

SmitheryRun ==
  /\ At("smithery", "called")
  /\ \E resp \in SmitheryResponses :
       LET items == IF resp.net = "ok" /\ resp.status = 200 /\ resp.body = "rows"
                       /\ ~HasKind(resp.rows, "junk")
                    THEN OkBars(resp.rows) ELSE <<>>
       IN Returns(get_smithery_mcp_crypto_price(adapter.symbol, adapter.timeframe,
                                                adapter.limit, resp),
                  Feed(items = <<>>, "provider", items))

\* the second quote request of method 3 is made only for a non-USD quote
Resp4s(symbol) ==
  IF SplitsInTwo(symbol) /\ SymbolParts(symbol)[2] \notin {"USD", "USDT", "USDC"}
  THEN RateResponses ELSE {RateResponse("error", 0, "", 0)}

CryptoApisRun ==
  /\ At("cryptoapis", "called")
  /\ \E r1 \in RateResponses, r2 \in RateResponses, r3 \in RateResponses,
        r4 \in Resp4s(adapter.symbol), draws \in [1..adapter.limit -> Draws] :
       LET m == IF SplitsInTwo(adapter.symbol)
                THEN cryptoapis_rate(adapter.symbol, r1, r2, r3, r4) ELSE RateRaise
       IN Returns(get_cryptoapis_price(adapter.symbol, adapter.timeframe, adapter.limit,
                                       r1, r2, r3, r4, draws),
                  Feed(m.kind # "rate" \/ m.rate <= 0, "fabricated", <<>>))

\* exchange = ccxt.binance(exchange_config), which may raise
BinanceCreate ==
  /\ At("binance", "called")
  /\ \E raises \in BOOLEAN :
       IF raises
       THEN Returns(get_binance_price_except(Raise), Feed(TRUE, "provider", <<>>))
       ELSE Goes("mirror")

NextMirror(a) ==
  IF a.mirror < NumMirrors
  THEN [a EXCEPT !.mirror = @ + 1, !.retry_count = 0]
  ELSE [a EXCEPT !.pc = "exchange"]

\* history, kept for the calls that ask for it: one more fetch_ohlcv was
\* made, and how it ended
Fetched(o) ==
  IF adapter.history
  THEN [adapter EXCEPT !.fetches = @ + 1,
                       !.last = IF o.kind # "rows" THEN o.kind
                                ELSE IF o.rows = <<>> THEN "empty"
                                ELSE IF InvalidCloses(o.rows) THEN "invalid" ELSE "ok"]
  ELSE adapter

\* one fetch_ohlcv on the current mirror, ending in one of `outcomes`
BinanceMirrorOn(outcomes) ==
  /\ At("binance", "mirror")
  /\ \E o \in outcomes :
       LET step == binance_attempt(adapter.retry_count, o)
       IN IF step = "return"
          THEN /\ adapter' = [Fetched(o) EXCEPT !.pc = "done"]
               /\ adapterOut' = Df(MapSeq(o.rows, Bar))
               /\ feed' = Feed(FALSE, "provider", MapSeq(o.rows, Bar))
               /\ UNCHANGED <<pageVars, call, alerts>>
          ELSE /\ adapter' = IF step = "retry" /\ adapter.retry_count + 1 < max_retries
                             THEN [Fetched(o) EXCEPT !.retry_count = @ + 1]
                             ELSE NextMirror(Fetched(o))
               /\ UNCHANGED <<adapterOut, feed, pageVars, call, alerts>>

BinanceMirror == BinanceMirrorOn(FetchOutcomes)

\* one fetch_ohlcv on the current fallback exchange, ending in one of `outcomes`
BinanceExchangeOn(outcomes) ==
  /\ At("binance", "exchange")
  /\ \E o \in outcomes :
       IF exchange_attempt(o) = "return"
       THEN /\ adapter' = [Fetched(o) EXCEPT !.pc = "done"]
            /\ adapterOut' = Df(MapSeq(o.rows, Bar))
            /\ feed' = Feed(FALSE, "provider", MapSeq(o.rows, Bar))
            /\ UNCHANGED <<pageVars, call, alerts>>
       ELSE IF adapter.exchange < NumExchanges
       THEN /\ adapter' = [Fetched(o) EXCEPT !.exchange = @ + 1]
            /\ UNCHANGED <<adapterOut, feed, pageVars, call, alerts>>
       ELSE /\ adapter' = [Fetched(o) EXCEPT !.pc = "done"]
            /\ adapterOut' = None
            /\ feed' = Feed(TRUE, "provider", <<>>)
            /\ UNCHANGED <<pageVars, call, alerts>>

BinanceExchange == BinanceExchangeOn(FetchOutcomes)

\* symbol.split('/'), then the DexScreener pair search and candles
DexCandles ==
  /\ At("dexscreener", "called")
  /\ IF ~SplitsInTwo(adapter.symbol)
     THEN Returns(get_dexscreener_data_except(Raise), Feed(TRUE, "provider", <<>>))
     ELSE \E pairResp \in PairResponses, candleResp \in CandleResponses :
            LET out == dexscreener_candles(adapter.timeframe, adapter.limit,
                                           pairResp, candleResp)
                given == IF out.kind = "df"
                         THEN MapSeq(FilterCandles(candleResp.rows, adapter.timeframe),
                                     LAMBDA c : Bar(c.row))
                         ELSE <<>>
            IN IF out.kind = "df"
               THEN Returns(out, Feed(given = <<>>, "provider", given))
               ELSE Goes("ccxt")

DexCcxt ==
  /\ At("dexscreener", "ccxt")
  /\ \E o \in CcxtOutcomes :
       LET out == dexscreener_ccxt(o)
       IN IF out.kind = "df"
          THEN Returns(out, Feed(out.rows = <<>>, "provider", out.rows))
          ELSE Goes("coingecko")

DexCoinGecko ==
  /\ At("dexscreener", "coingecko")
  /\ \E resp \in GeckoResponses :
       \E draws \in [1..Len(resp.rows) -> Draws] :
         LET out == dexscreener_coingecko(adapter.timeframe, adapter.limit, resp, draws)
         IN IF out.kind = "df"
            THEN Returns(out, Feed(out.rows = <<>>, "fabricated", <<>>))
            ELSE Goes("simulate")

DexSimulated ==
  /\ At("dexscreener", "simulate")
  /\ \E draws \in [1..adapter.limit -> Draws] :
       Returns(get_dexscreener_data_except(
                 dexscreener_simulated(adapter.symbol, adapter.timeframe,
                                       adapter.limit, draws)),
               Feed(TRUE, "fabricated", <<>>))

InvokeAny ==
  \E name \in AdapterNames, symbol \in Symbols, timeframe \in Timeframes, limit \in Limits :
    Invoke(name, symbol, timeframe, limit)

NextAdapters ==
  \/ InvokeAny
  \/ YahooRun \/ AlphaRun \/ SmitheryRun \/ CryptoApisRun
  \/ BinanceCreate \/ BinanceMirror \/ BinanceExchange
  \/ DexCandles \/ DexCcxt \/ DexCoinGecko \/ DexSimulated

SpecAdapters == Init /\ [][NextAdapters]_vars

\* get_binance_price alone, its fetches counted; every step of a call that
\* is under way is eventually taken (the call runs in one thread, each fetch
\* has a timeout and each sleep is finite)
InvokeBinance ==
  /\ adapter.pc \in {"idle", "done"}
  /\ \E symbol \in Symbols :
       adapter' = [name |-> "binance", pc |-> "called", symbol |-> symbol,
                   timeframe |-> "1h", limit |-> 1,
                   mirror |-> 1, retry_count |-> 0, exchange |-> 1,
                   history |-> TRUE, fetches |-> 0, last |-> ""]
  /\ feed' = NoFeed
  /\ adapterOut' = None
  /\ UNCHANGED <<pageVars, call, alerts>>

\* one answer of each kind: the four errors, no rows, a null close, a good row
FetchKinds ==
  {FetchOutcome(e, <<>>) : e \in FetchErrors}
    \cup {FetchOutcome("rows", <<>>),
          FetchOutcome("rows", <<Row("nan", 1, GoodQuote)>>),
          FetchOutcome("rows", <<Row("ok", 1, GoodQuote)>>)}

BinanceMirrorCounted == BinanceMirrorOn(FetchKinds)
BinanceExchangeCounted == BinanceExchangeOn(FetchKinds)

NextBinance ==
  InvokeBinance \/ BinanceCreate \/ BinanceMirrorCounted \/ BinanceExchangeCounted

SpecBinance ==
  /\ Init
  /\ [][NextBinance]_vars
  /\ WF_vars(BinanceCreate \/ BinanceMirrorCounted \/ BinanceExchangeCounted)

(* ---------------------- verify_price_reasonability --------------------- *)
MinClose(rows) ==
  CHOOSE m \in {rows[i].close : i \in 1..Len(rows)} :
    \A j \in 1..Len(rows) : m <= rows[j].close
MaxClose(rows) ==
  CHOOSE m \in {rows[i].close : i \in 1..Len(rows)} :
    \A j \in 1..Len(rows) : rows[j].close <= m

\* the checks that return False before any reference price or range is read:
\* empty data, a close <= 0, max close above 1000 times min close
verify_rejects_outright(rows) ==
  \/ rows = <<>>
  \/ \E i \in 1..Len(rows) : rows[i].close <= 0
  \/ MaxClose(rows) > MinClose(rows) * 1000

(* ------------------------------- claims -------------------------------- *)
Done == pc = "done"
LastCall == calls[Len(calls)]
RealAdapters == {"yahoo", "alphavantage"}
SuppliedByReal == Done /\ calls # <<>> /\ LastCall.supplied /\ LastCall.adapter \in RealAdapters
StrictlyAscending(rows) ==
  \A i \in 1..(Len(rows) - 1) : rows[i].timestamp < rows[i + 1].timestamp
BarSane(b) == b.low <= b.close /\ b.close <= b.high /\ b.close > 0

\* C1: every completed get_crypto_data call hands back an OHLCV sequence:
\* never None, never an exception.
C1_GetCryptoDataTotal == Done => result.kind = "df"

\* C2: a returned sequence is non-empty, has at most `limit` bars, strictly
\* ascending timestamps, and low <= close <= high, close > 0 in every bar.
C2_ReturnedSequenceWellFormed ==
  (Done /\ result.kind = "df") =>
    /\ Len(result.rows) >= 1
    /\ Len(result.rows) <= req.limit
    /\ StrictlyAscending(result.rows)
    /\ \A i \in 1..Len(result.rows) : BarSane(result.rows[i])

\* C3: a sequence supplied by a real (non-synthetic) source is returned only
\* if the validator accepts it: nothing verify_price_reasonability rejects
\* outright reaches the caller.
C3_PlausibilityGate == SuppliedByReal => ~verify_rejects_outright(result.rows)

AdapterOrder == <<"yahoo", "alphavantage", "synthetic">>

\* C4: the sources are invoked one after another in the fixed order Yahoo,
\* Alpha Vantage, simulation; a source is invoked only after every earlier one
\* failed; nothing is invoked after a source supplied the result.
C4_FixedPriorityOrder ==
  /\ Len(calls) <= Len(AdapterOrder)
  /\ \A i \in 1..Len(calls) :
       /\ calls[i].adapter = AdapterOrder[i]
       /\ i < Len(calls) => ~calls[i].supplied
  /\ (calls # <<>> /\ LastCall.supplied) => Done
  /\ pc \in {"yahoo", "alphavantage", "synthetic"} => pc = AdapterOrder[Len(calls) + 1]

\* C4 witness: the simulation ran third, after Yahoo and Alpha Vantage failed
C4_Witness == Done /\ Len(calls) = 3 /\ LastCall.supplied /\ ~calls[1].supplied /\ ~calls[2].supplied

\* C5: a request with the same arguments as the one before it returns the
\* same sequence and invokes no data source (it is served from the cache).
C5_CacheIdempotence ==
  (Done /\ prev.req = req) => (result = prev.result /\ calls = <<>>)

\* C6: once a request has completed with fetched data, price_data holds that
\* sequence under the request's cache key.
C6_Memoized ==
  (SuppliedByReal /\ result.rows # <<>>) =>
    /\ CacheKey(req.symbol, req.timeframe) \in DOMAIN price_data
    /\ price_data[CacheKey(req.symbol, req.timeframe)] = result.rows

\* C7: when Yahoo and Alpha Vantage both fail, the caller gets a simulated
\* sequence of exactly `limit` bars, each with close > 0 and
\* low <= close <= high.
C7_SyntheticOnExhaustion ==
  (Done /\ Len(calls) = 3) =>
    /\ result.kind = "df"
    /\ Len(result.rows) = req.limit
    /\ \A i \in 1..Len(result.rows) : BarSane(result.rows[i])

AdapterDone == adapter.pc = "done"
CryptoAdapters == {"smithery", "cryptoapis", "binance", "dexscreener"}
SortedAscending(rows) ==
  \A i \in 1..(Len(rows) - 1) : rows[i].timestamp <= rows[i + 1].timestamp

\* C8: get_binance_price, get_smithery_mcp_crypto_price, get_cryptoapis_price
\* and get_dexscreener_data hand back a DataFrame or None, whatever fails
\* inside them; no exception leaves them.
C8_AdaptersNeverRaise ==
  (AdapterDone /\ adapter.name \in CryptoAdapters) => adapterOut.kind \in {"df", "none"}

\* C8 witness: get_dexscreener_data, given a well-formed symbol, came back
\* with None: every source failed, the simulation raised and the outer handler
\* caught it
C8_Witness ==
  /\ AdapterDone
  /\ adapter.name = "dexscreener"
  /\ SplitsInTwo(adapter.symbol)
  /\ ~DateRangeAccepts(adapter.timeframe)
  /\ adapterOut = None

\* C9: an adapter whose provider failed (bad status, malformed or empty
\* payload, no bars left) returns no sequence; a returned sequence is never
\* empty and never made of locally generated bars.
C9_AdapterReportsFailure ==
  AdapterDone =>
    /\ feed.failed => adapterOut.kind # "df"
    /\ adapterOut.kind = "df" => (adapterOut.rows # <<>> /\ feed.origin = "provider")

\* C10: a sequence an adapter returns from provider data is sorted ascending
\* by timestamp, has at most `limit` bars, and these are the most recent of
\* the bars the provider sent.
C10_SortedMostRecent ==
  (AdapterDone /\ adapterOut.kind = "df" /\ feed.origin = "provider") =>
    /\ SortedAscending(adapterOut.rows)
    /\ Len(adapterOut.rows) <= adapter.limit
    /\ adapterOut.rows = TailLimit(SortValues(feed.rows), adapter.limit)


(* ----------------- verify_price_reasonability, in full ----------------- *)
\* price ticks in one dollar for a coin without a price range: a tick is
\* 0.00005 dollars, so that a price below 0.0001 can be told from 0; the
\* prices of a coin with a price range are whole dollars
TicksPerDollar == 20000

\* float values a price column may hold besides numbers
NaN == -2000000000
Inf == 2000000000

required_columns == {"open", "high", "low", "close"}
AllColumns == required_columns \cup {"timestamp", "volume"}

\* a DataFrame with its columns; a column that is not in `columns` is absent,
\* whatever the rows say
Frame(columns, rows) == [kind |-> "df", columns |-> columns, rows |-> rows]
NoFrame == [kind |-> "none", columns |-> {}, rows |-> <<>>]

\* df[required_columns].isna().any().any()
HasNaN(rows) ==
  \E i \in 1..Len(rows) : \E c \in required_columns : rows[i][c] = NaN

\* a > b * k for positive a and b, the product never formed
Exceeds(a, b, k) ==
  IF b = Inf THEN FALSE
  ELSE IF a = Inf THEN TRUE
  ELSE a \div k > b \/ (a \div k = b /\ a % k # 0)

\* the same checks without the one on max close over min close
verify_outright_no_ratio(df) ==
  \/ df.kind = "none"
  \/ Len(df.rows) = 0
  \/ ~(required_columns \subseteq df.columns)
  \/ HasNaN(df.rows)
  \/ \E i \in 1..Len(df.rows) : df.rows[i].close <= 0

\* lines 677-713: the checks that return False before any reference price
\* or range is read
verify_outright(df) ==
  \/ df.kind = "none"
  \/ Len(df.rows) = 0
  \/ ~(required_columns \subseteq df.columns)
  \/ HasNaN(df.rows)
  \/ \E i \in 1..Len(df.rows) : df.rows[i].close <= 0
  \/ Exceeds(MaxClose(df.rows), MinClose(df.rows), 1000)

\* the price ranges with whole-dollar bounds
reasonable_ranges ==
  [BTC |-> <<20000, 200000>>, ETH |-> <<800, 15000>>, SOL |-> <<30, 800>>,
   BNB |-> <<150, 2000>>, DOT |-> <<5, 100>>, AVAX |-> <<10, 150>>,
   LINK |-> <<5, 100>>]

\* the CoinGecko lookup: the request or the reading of its answer raised, the
\* status was not 200, the answer lacks the price, or it carries one
Reference(kind, usd) == [kind |-> kind, usd |-> usd]

\* abs(latest_price - reference_price)
AbsDiff(latest_price, reference_price) ==
  IF latest_price = Inf THEN Inf
  ELSE IF latest_price > reference_price THEN latest_price - reference_price
  ELSE reference_price - latest_price

\* diff / reference_price * 100 > pct, and < pct, for pct dividing 100
PercentOver(diff, reference_price, pct) ==
  diff = Inf \/ diff * (100 \div pct) > reference_price
PercentUnder(diff, reference_price, pct) ==
  diff # Inf /\ diff * (100 \div pct) < reference_price

\* the same comparison with a lookup that failed counted against the data
verify_reference_required(latest_price, ref) ==
  IF ref.kind = "price" /\ ref.usd > 0
  THEN LET diff == AbsDiff(latest_price, ref.usd)
       IN IF PercentOver(diff, ref.usd, 50)
          THEN IF PercentOver(diff, ref.usd, 100) THEN "reject" ELSE "range"
          ELSE IF PercentUnder(diff, ref.usd, 20) THEN "accept" ELSE "range"
  ELSE "reject"

\* the same comparison accepting at once whatever is not over 50%
verify_reference_50(latest_price, ref) ==
  IF ref.kind = "price" /\ ref.usd > 0
  THEN LET diff == AbsDiff(latest_price, ref.usd)
       IN IF PercentOver(diff, ref.usd, 50)
          THEN IF PercentOver(diff, ref.usd, 100) THEN "reject" ELSE "range"
          ELSE "accept"
  ELSE "range"

\* lines 732-780: "accept" and "reject" return at once, "range" goes on to
\* the range checks
verify_reference(latest_price, ref) ==
  IF ref.kind = "price" /\ ref.usd > 0
  THEN LET diff == AbsDiff(latest_price, ref.usd)
       IN IF PercentOver(diff, ref.usd, 50)
          THEN IF PercentOver(diff, ref.usd, 100) THEN "reject" ELSE "range"
          ELSE IF PercentUnder(diff, ref.usd, 20) THEN "accept" ELSE "range"
  ELSE "range"

\* the range test alone, without the unit adjustment and the extended range
verify_in_ranges_strict(base_coin, latest_price) ==
  /\ reasonable_ranges[base_coin][1] <= latest_price
  /\ latest_price <= reasonable_ranges[base_coin][2]

\* lines 783-811: a coin with a price range
verify_in_ranges(base_coin, latest_price) ==
  LET min_price == reasonable_ranges[base_coin][1]
      max_price == reasonable_ranges[base_coin][2]
  IN IF min_price <= latest_price /\ latest_price <= max_price THEN TRUE
     ELSE IF /\ latest_price < min_price
             /\ latest_price * 100 > min_price
             /\ latest_price * 100 < max_price THEN TRUE
     ELSE IF /\ latest_price <= max_price * 3
             /\ min_price * 3 <= latest_price * 10 THEN TRUE
     ELSE FALSE

\* if latest_price < 0.0001 / if 0 < latest_price < 10000, in ticks
MicroPrice == TicksPerDollar \div 10000
GenericCeiling == 10000 * TicksPerDollar

\* lines 812-830: a coin without a price range; a price the first test does
\* not accept goes on to the second
verify_generic(latest_price, price_min, price_max) ==
  IF latest_price < MicroPrice /\ price_max < 5 * price_min THEN TRUE
  ELSE IF 0 < latest_price /\ latest_price < GenericCeiling THEN TRUE
  ELSE FALSE

verify_range(df, base_coin) ==
  LET latest_price == df.rows[Len(df.rows)].close
  IN IF base_coin \in DOMAIN reasonable_ranges
     THEN verify_in_ranges(base_coin, latest_price)
     ELSE verify_generic(latest_price, MinClose(df.rows), MaxClose(df.rows))

verify_price_reasonability(df, base_coin, ref) ==
  IF verify_outright(df) THEN FALSE
  ELSE LET stage == verify_reference(df.rows[Len(df.rows)].close, ref)
       IN IF stage = "accept" THEN TRUE
          ELSE IF stage = "reject" THEN FALSE
          ELSE verify_range(df, base_coin)

\* the DataFrame after the call, had the unit adjustment of line 801 been made
verify_df_unit_adjusted(df) ==
  IF df.kind = "df"
  THEN [df EXCEPT !.rows = [i \in 1..Len(df.rows) |->
                              [df.rows[i] EXCEPT !.close = IF @ \in {NaN, Inf} \/ @ > 1000000 THEN @ ELSE @ * 100]]]
  ELSE df

\* the DataFrame after the call: verify_price_reasonability assigns nothing to it
verify_df_after(df) == df


(* ---------------- the validator called on its own ---------------------- *)
BaseCoins == {"BTC", "ETH", "FOO"}

\* closes of a coin with a price range, in dollars, and of a coin without
\* one, in ticks
ClosesOf(base_coin) ==
  IF base_coin \in DOMAIN reasonable_ranges
  THEN {-1, 0, 5, 250, 5999, 6000, 19999, 20000, 150000, 200000, 200001,
        600000, 600001, Inf}
  ELSE {0, 1, 4, 5, GenericCeiling - 1, GenericCeiling, Inf}

PriceRow(c) == [open |-> c, high |-> c, low |-> c, close |-> c]

\* rows with one price everywhere, and rows whose close is a number while
\* another column is not
PriceRows(base_coin) ==
  {PriceRow(c) : c \in ClosesOf(base_coin) \cup {NaN}}
    \cup {[PriceRow(5) EXCEPT !.high = v] : v \in {NaN, Inf}}

Frames(base_coin) ==
  {NoFrame}
    \cup {Frame(AllColumns, rows) : rows \in SeqsUpTo(PriceRows(base_coin), MaxRows)}
    \cup {Frame(AllColumns \ {"low"}, <<PriceRow(c)>>) : c \in {5, 150000}}

References ==
  {Reference("raise", 0), Reference("status", 0), Reference("missing", 0)}
    \cup {Reference("price", p) : p \in {-1, 0, 1, 5, 74000, 75000, 100000, 125000, 126000, 500000}}

VerifyCall ==
  /\ call = NoCall
  /\ \E base_coin \in BaseCoins :
       \E df \in Frames(base_coin), ref \in References :
         call' = [fn |-> "verify_price_reasonability", df |-> df,
                  base_coin |-> base_coin, ref |-> ref, before |-> <<>>,
                  out |-> verify_price_reasonability(df, base_coin, ref),
                  df_after |-> verify_df_after(df)]
  /\ UNCHANGED <<pageVars, adapterVars, alerts>>

\* the DataFrame the first call left is validated once more, the lookup
\* answering as before
VerifyAgain ==
  /\ call.fn = "verify_price_reasonability"
  /\ call.before = <<>>
  /\ call' = [call EXCEPT !.before = Append(@, call.out),
                          !.out = verify_price_reasonability(call.df_after, call.base_coin, call.ref),
                          !.df_after = verify_df_after(call.df_after)]
  /\ UNCHANGED <<pageVars, adapterVars, alerts>>

NextValidator == VerifyCall \/ VerifyAgain

SpecValidator == Init /\ [][NextValidator]_vars


(* ------------------------ claims on the validator ---------------------- *)
Verified == call.fn = "verify_price_reasonability"
LatestClose == call.df.rows[Len(call.df.rows)].close
NoReference == Reference("raise", 0)

\* some close is more than 1000 times another positive close
RatioOver1000(rows) ==
  \E i, j \in 1..Len(rows) :
    /\ rows[j].close > 0
    /\ rows[i].close > 0
    /\ Exceeds(rows[i].close, rows[j].close, 1000)

HasNonFinite(rows) ==
  \E i \in 1..Len(rows) : \E c \in required_columns : rows[i][c] \in {NaN, Inf}

\* the defects of a sequence other than a non-finite value
Defective(df) ==
  \/ df.kind = "none"
  \/ df.rows = <<>>
  \/ ~(required_columns \subseteq df.columns)
  \/ \E i \in 1..Len(df.rows) : df.rows[i].close # NaN /\ df.rows[i].close <= 0
  \/ (~HasNaN(df.rows) /\ RatioOver1000(df.rows))

\* C11 as stated: whatever the reference price and the range, the validator
\* rejects a sequence that is None or empty, lacks one of open/high/low/close,
\* holds a non-finite price, holds a close <= 0, or whose max close is over
\* 1000 times its min close.
C11_RejectsDefective ==
  (Verified /\ (Defective(call.df) \/ HasNonFinite(call.df.rows))) => call.out = FALSE

\* C11, amended: the same with "holds a NaN price or an infinite close" in
\* place of "holds a non-finite price"; an infinite open, high or low next to
\* finite closes is not looked at.
C11_RejectsDefectiveOrNaN ==
  (Verified /\ (\/ Defective(call.df)
                \/ HasNaN(call.df.rows)
                \/ \E i \in 1..Len(call.df.rows) : call.df.rows[i].close = Inf))
    => call.out = FALSE

\* a sequence rejected for its max/min ratio although the reference price
\* agrees with its last close
C11_Witness ==
  /\ Verified
  /\ call.before = <<>>
  /\ call.df.kind = "df"
  /\ call.df.rows # <<>>
  /\ ~HasNonFinite(call.df.rows)
  /\ RatioOver1000(call.df.rows)
  /\ verify_reference(LatestClose, call.ref) = "accept"
  /\ call.out = FALSE

\* C12: with a positive reference price, a sequence that passed the outright
\* checks is accepted at once if its last close is less than 20% away from
\* the reference, rejected at once if more than 100% away, and in between
\* gets the verdict the range checks give without any reference.
C12_ReferenceThresholds ==
  (Verified /\ ~verify_outright(call.df) /\ call.ref.kind = "price" /\ call.ref.usd > 0)
    => LET diff == AbsDiff(LatestClose, call.ref.usd)
       IN IF diff # Inf /\ 5 * diff < call.ref.usd THEN call.out = TRUE
          ELSE IF diff = Inf \/ diff > call.ref.usd THEN call.out = FALSE
          ELSE call.out = verify_price_reasonability(call.df, call.base_coin, NoReference)

\* accepted on the reference price although the range checks alone reject
C12_Witness ==
  /\ Verified
  /\ ~verify_outright(call.df)
  /\ call.ref.kind = "price"
  /\ call.ref.usd > 0
  /\ LatestClose # Inf
  /\ 5 * AbsDiff(LatestClose, call.ref.usd) < call.ref.usd
  /\ call.out = TRUE
  /\ ~verify_price_reasonability(call.df, call.base_coin, NoReference)

\* no reference price decides: none was obtained, or the last close is
\* between 20% and 100% away from it
Undecided ==
  \/ call.ref.kind # "price"
  \/ call.ref.usd <= 0
  \/ LET diff == AbsDiff(LatestClose, call.ref.usd)
     IN diff # Inf /\ 5 * diff >= call.ref.usd /\ diff <= call.ref.usd

\* C13: for a coin with a price range (min, max) and no deciding reference
\* price, a sequence that passed the outright checks is accepted iff its last
\* close is in [min, max], or below min with 100 times it strictly inside
\* (min, max), or in [0.3*min, 3*max]; BTC at 150000 is accepted, at 5 rejected.
C13_StaticRange ==
  (Verified /\ ~verify_outright(call.df) /\ call.base_coin \in DOMAIN reasonable_ranges
     /\ Undecided)
    => LET p == LatestClose
           lo == reasonable_ranges[call.base_coin][1]
           hi == reasonable_ranges[call.base_coin][2]
       IN /\ call.out = (\/ (lo <= p /\ p <= hi)
                         \/ (p < lo /\ lo < 100 * p /\ 100 * p < hi)
                         \/ (p <= 3 * hi /\ 3 * lo <= 10 * p))
          /\ (call.base_coin = "BTC" /\ p = 150000) => call.out = TRUE
          /\ (call.base_coin = "BTC" /\ p = 5) => call.out = FALSE

\* BTC at 250, taken for a price in cents and accepted
C13_Witness ==
  /\ Verified
  /\ ~verify_outright(call.df)
  /\ call.base_coin = "BTC"
  /\ Undecided
  /\ LatestClose = 250
  /\ call.out = TRUE

\* C14: for a coin without a price range and no deciding reference price, a
\* sequence that passed the outright checks is accepted, when its last close
\* is below 0.0001, only if max close / min close < 5; it is accepted when
\* its last close is from 0.0001 up to 10000; it is rejected otherwise.
C14_GenericCheck ==
  (Verified /\ ~verify_outright(call.df) /\ call.base_coin \notin DOMAIN reasonable_ranges
     /\ Undecided)
    => LET p == LatestClose
       IN call.out = (\/ (p < MicroPrice /\ MaxClose(call.df.rows) < 5 * MinClose(call.df.rows))
                      \/ (MicroPrice <= p /\ p < GenericCeiling))

Lacks(df, cols) == ~(cols \subseteq df.columns)

RECURSIVE SumClose(_, _, _)
\* closes of rows lo..hi, added up
SumClose(rows, lo, hi) ==
  IF lo > hi THEN 0 ELSE rows[hi].close + SumClose(rows, lo, hi - 1)

\* round(num / den, 2) in hundredths, den > 0: the nearest, a tie to the even one
Round100(num, den) ==
  LET q == (100 * num) \div den
      r == (100 * num) % den
  IN IF 2 * r > den THEN q + 1
     ELSE IF 2 * r < den THEN q
     ELSE IF q % 2 = 0 THEN q ELSE q + 1

\* a result of smc_analysis; trend_strength in hundredths
SmcResult(kind, price, market_structure, trend_strength, recommendation) ==
  [kind |-> kind, price |-> price, market_structure |-> market_structure,
   trend_strength |-> trend_strength, recommendation |-> recommendation]

smc_default == SmcResult("ok", 0, "neutral", 50, "neutral")
smc_raise == SmcResult("raise", 0, "", 0, "")

\* rolling(window=20).mean() at the last row, times 20
Sum20(rows) == SumClose(rows, Len(rows) - 19, Len(rows))
\* rolling(window=50).mean() at the last row, times 50; NaN below 50 rows
Sum50(rows) == SumClose(rows, Len(rows) - 49, Len(rows))

\* np.where(df['sma20'] > df['sma50'], 'bullish', 'bearish') at the last row:
\* a comparison with NaN is False
smc_trend(rows) ==
  IF Len(rows) >= 50 /\ 5 * Sum20(rows) > 2 * Sum50(rows) THEN "bullish" ELSE "bearish"

\* the clamp left out
Unclamped(lo, hi, num, den) ==
  IF den = 0 THEN 10 * hi ELSE Round100(num, den)

\* max(lo, min(hi, num / den)) in hundredths, lo and hi in tenths; num / den
\* is NaN when both are 0 and, for den = 0, infinite with the sign of num;
\* min and max keep their first argument unless the second compares below
\* (above) it
Clamp(lo, hi, num, den) ==
  IF den = 0
  THEN IF num < 0 THEN 10 * lo ELSE 10 * hi
  ELSE IF 10 * num < hi * den
       THEN IF 10 * num > lo * den THEN Round100(num, den) ELSE 10 * lo
       ELSE 10 * hi

\* bullish_strength, rounded: price_sma_ratio = close / sma20 = 20 * close / Sum20
smc_trend_strength(rows) ==
  LET close == rows[Len(rows)].close
      num == 20 * close
      den == Sum20(rows)
  IN IF smc_trend(rows) = "bullish"
     THEN Clamp(5, 9, num, den)
     ELSE Clamp(3, 7, 2 * num - den, den)

\* buy and sell given on the position of the close alone
smc_recommendation_by_close(rows) ==
  IF 20 * rows[Len(rows)].close > Sum20(rows) THEN "buy"
  ELSE IF 20 * rows[Len(rows)].close < Sum20(rows) THEN "sell"
  ELSE "neutral"

smc_recommendation(rows) ==
  LET close == rows[Len(rows)].close
  IN IF smc_trend(rows) = "bullish" /\ 20 * close > Sum20(rows) THEN "buy"
     ELSE IF smc_trend(rows) = "bearish" /\ 20 * close < Sum20(rows) THEN "sell"
     ELSE "neutral"

\* the guard with 21 bars asked for
smc_guard_21(df) == df.kind = "none" \/ Len(df.rows) < 21

\* if df is None or len(df) < 20
smc_guard(df) == df.kind = "none" \/ Len(df.rows) < 20

smc_analysis(df) ==
  IF smc_guard(df) THEN smc_default
  ELSE IF Lacks(df, {"close", "high", "low", "volume"}) THEN smc_raise
  ELSE SmcResult("ok", df.rows[Len(df.rows)].close, smc_trend(df.rows),
                 smc_trend_strength(df.rows), smc_recommendation(df.rows))


\* a result of snr_analysis; rsi in hundredths
SnrResult(kind, price, rsi, overbought, oversold, recommendation) ==
  [kind |-> kind, price |-> price, rsi |-> rsi, overbought |-> overbought,
   oversold |-> oversold, recommendation |-> recommendation]

snr_default == SnrResult("ok", 0, 5000, FALSE, FALSE, "neutral")
snr_raise == SnrResult("raise", 0, 0, FALSE, FALSE, "")

\* delta = df['close'].diff(): NaN at the first row, which where() turns into
\* a gain and a loss of 0
Delta(rows, i) == IF i = 1 THEN 0 ELSE rows[i].close - rows[i - 1].close

RECURSIVE SumGain(_, _, _)
\* gain.rolling(window=14).mean() at row hi, times 14, for lo = hi - 13
SumGain(rows, lo, hi) ==
  IF lo > hi THEN 0
  ELSE (IF Delta(rows, hi) > 0 THEN Delta(rows, hi) ELSE 0) + SumGain(rows, lo, hi - 1)

RECURSIVE SumLoss(_, _, _)
SumLoss(rows, lo, hi) ==
  IF lo > hi THEN 0
  ELSE (IF Delta(rows, hi) < 0 THEN 0 - Delta(rows, hi) ELSE 0) + SumLoss(rows, lo, hi - 1)

\* the RSI kept as the pair it is computed from: rs = g / l, rsi =
\* 100 - 100 / (1 + rs) = 100 * g / (g + l); NaN when g = l = 0, and then 50
\* by fillna(50); 100 when l = 0 < g (rs infinite)
AvgGain(rows) == SumGain(rows, Len(rows) - 13, Len(rows))
AvgLoss(rows) == SumLoss(rows, Len(rows) - 13, Len(rows))

\* the NaN left in place of fillna(50), shown as -1
snr_rsi_unfilled(rows) ==
  LET g == AvgGain(rows)
      l == AvgLoss(rows)
  IN IF g = 0 /\ l = 0 THEN 0 - 1
     ELSE IF l = 0 THEN 10000
     ELSE Round100(100 * g, g + l)

\* round(df['rsi'].iloc[-1], 2), in hundredths
snr_rsi(rows) ==
  LET g == AvgGain(rows)
      l == AvgLoss(rows)
  IN IF g = 0 /\ l = 0 THEN 5000
     ELSE IF l = 0 THEN 10000
     ELSE Round100(100 * g, g + l)

\* df['rsi'].iloc[-1] > 70, on the value before rounding
snr_overbought(rows) == 3 * AvgGain(rows) > 7 * AvgLoss(rows)
\* df['rsi'].iloc[-1] < 30
snr_oversold(rows) == 7 * AvgGain(rows) < 3 * AvgLoss(rows)

\* if df is None or len(df) < 14
snr_guard(df) == df.kind = "none" \/ Len(df.rows) < 14

\* the recommendation taken from the opposite flag
snr_analysis_swapped(df) ==
  IF snr_guard(df) THEN snr_default
  ELSE IF Lacks(df, {"close", "high", "low"}) THEN snr_raise
  ELSE SnrResult("ok", df.rows[Len(df.rows)].close, snr_rsi(df.rows),
                 snr_overbought(df.rows), snr_oversold(df.rows),
                 IF snr_overbought(df.rows) THEN "buy"
                 ELSE IF snr_oversold(df.rows) THEN "sell" ELSE "neutral")

snr_analysis(df) ==
  IF snr_guard(df) THEN snr_default
  ELSE IF Lacks(df, {"close", "high", "low"}) THEN snr_raise
  ELSE SnrResult("ok", df.rows[Len(df.rows)].close, snr_rsi(df.rows),
                 snr_overbought(df.rows), snr_oversold(df.rows),
                 IF snr_oversold(df.rows) THEN "buy"
                 ELSE IF snr_overbought(df.rows) THEN "sell" ELSE "neutral")

\* the peak test with ties let through
IsPeakOrTie(rows, i) ==
  \A j \in 1..3 : rows[i].high >= rows[i - j].high /\ rows[i].high >= rows[i + j].high

\* all(highs[i] > highs[i-j] ...) and all(highs[i] > highs[i+j] ...), window_size = 3
IsPeak(rows, i) ==
  \A j \in 1..3 : rows[i].high > rows[i - j].high /\ rows[i].high > rows[i + j].high

IsTrough(rows, i) ==
  \A j \in 1..3 : rows[i].low < rows[i - j].low /\ rows[i].low < rows[i + j].low

\* for i in range(window_size, n - window_size), rows counted from 1
snr_peaks(rows) == {i \in 4..(Len(rows) - 3) : IsPeak(rows, i)}
snr_troughs(rows) == {i \in 4..(Len(rows) - 3) : IsTrough(rows, i)}

\* np.mean([highs[i] - lows[i] for i in range(n-14, n)]), times 14
RECURSIVE SumRange(_, _, _)
SumRange(rows, lo, hi) ==
  IF lo > hi THEN 0 ELSE (rows[hi].high - rows[hi].low) + SumRange(rows, lo, hi - 1)
Atr14(rows) == SumRange(rows, Len(rows) - 13, Len(rows))

\* the peaks above the last close, in row order; prices times 14
RECURSIVE PeakLevels(_, _)
PeakLevels(rows, i) ==
  IF i < 4 THEN <<>>
  ELSE PeakLevels(rows, i - 1)
         \o (IF i \in snr_peaks(rows) /\ rows[i].high > rows[Len(rows)].close
             THEN <<14 * rows[i].high>> ELSE <<>>)

\* the troughs below the last close
RECURSIVE TroughLevels(_, _)
TroughLevels(rows, i) ==
  IF i < 4 THEN <<>>
  ELSE TroughLevels(rows, i - 1)
         \o (IF i \in snr_troughs(rows) /\ rows[i].low < rows[Len(rows)].close
             THEN <<14 * rows[i].low>> ELSE <<>>)

\* list.sort(key=price): ascending
RECURSIVE InsertAsc(_, _)
InsertAsc(x, s) ==
  IF s = <<>> THEN <<x>>
  ELSE IF x < Head(s) THEN <<x>> \o s
  ELSE <<Head(s)>> \o InsertAsc(x, Tail(s))
RECURSIVE SortAsc(_)
SortAsc(s) == IF s = <<>> THEN <<>> ELSE InsertAsc(s[Len(s)], SortAsc(SubSeq(s, 1, Len(s) - 1)))
\* list.sort(key=price, reverse=True)
SortDesc(s) == LET a == SortAsc(s) IN [i \in 1..Len(a) |-> a[Len(a) + 1 - i]]

\* fewer than 2 levels: three more, 1, 2 and 3 ATR away from the last close
WithFallback(levels, rows, sign) ==
  IF Len(levels) < 2
  THEN levels \o [k \in 1..3 |-> 14 * rows[Len(rows)].close + sign * k * Atr14(rows)]
  ELSE levels

\* the support levels left in the order they were found
snr_support_unsorted(rows) == WithFallback(TroughLevels(rows, Len(rows) - 3), rows, 0 - 1)

\* resistance_levels and support_levels once sorted; prices times 14
snr_resistance_levels(rows) == SortAsc(WithFallback(PeakLevels(rows, Len(rows) - 3), rows, 1))
snr_support_levels(rows) == SortDesc(WithFallback(TroughLevels(rows, Len(rows) - 3), rows, 0 - 1))

\* near_* = levels[0], strong_* = levels[1]; prices times 14, not rounded
snr_levels(rows) ==
  LET res == snr_resistance_levels(rows)
      sup == snr_support_levels(rows)
  IN [near_resistance |-> res[1], strong_resistance |-> res[2],
      near_support |-> sup[1], strong_support |-> sup[2],
      resistance_levels |-> res, support_levels |-> sup]

\* df['rsi'] at row k, as a fraction: NaN (fewer than 14 rows up to k, or no
\* gain and no loss) is filled with 50
RsiAt(rows, k) ==
  LET g == SumGain(rows, k - 13, k)
      l == SumLoss(rows, k - 13, k)
  IN IF k < 14 \/ (g = 0 /\ l = 0) THEN <<50, 1>>
     ELSE IF l = 0 THEN <<100, 1>>
     ELSE <<100 * g, g + l>>

\* rsi_change = df['rsi'].iloc[-1] - df['rsi'].iloc[-6] if len(df) > 5,
\* compared with bound: sign 1 for "> bound", -1 for "< -bound"
RsiChangeBeyond(rows, bound, sign) ==
  LET a == RsiAt(rows, Len(rows))
      b == RsiAt(rows, Len(rows) - 5)
  IN sign * (a[1] * b[2] - b[1] * a[2]) > bound * a[2] * b[2]

snr_momentum(rows) ==
  [momentum_up |-> RsiChangeBeyond(rows, 5, 1),
   momentum_down |-> RsiChangeBeyond(rows, 5, 0 - 1)]

\* df['rsi'] = ... writes a column into the DataFrame it was given
snr_df_after(df) ==
  IF snr_guard(df) \/ Lacks(df, {"close"}) THEN df
  ELSE [df EXCEPT !.columns = @ \cup {"rsi"}]

\* the columns smc_analysis writes, in the order it writes them: from close,
\* from high and low, from volume
smc_columns(df) ==
  IF Lacks(df, {"close"}) THEN {}
  ELSE {"sma20", "sma50", "sma200", "sma20_std", "upper_band", "lower_band", "trend"}
         \cup (IF Lacks(df, {"high"}) THEN {}
               ELSE {"prev_high"}
                      \cup (IF Lacks(df, {"low"}) THEN {}
                            ELSE {"prev_low", "higher_high", "lower_low"}
                                   \cup (IF Lacks(df, {"volume"}) THEN {}
                                         ELSE {"volume_ma", "high_volume"})))

\* df['sma20'] = ... and the like write into the DataFrame it was given
smc_df_after(df) ==
  IF smc_guard(df) THEN df
  ELSE [df EXCEPT !.columns = @ \cup smc_columns(df)]

(* ----------------- the analysis functions called on their own ---------- *)
BarCounts == {0, 13, 14, 15, 19, 20, 21, 30, 31, 49, 50, 51, 60}
Shapes == {"flat", "rise", "fall", "zigzag", "hill", "wave"}

\* a wave of period 8 that climbs by 1 every second period:
\* 0 1 2 3 4 3 2 1, 0 1 2 3 4 3 2 1, 1 2 3 4 5 4 3 2, ...
Wave(i) ==
  LET k == (i - 1) % 8
  IN (IF k <= 4 THEN k ELSE 8 - k) + ((i - 1) \div 16)
LastMoves == {"none", "crash", "dip", "pop", "spike"}

\* the close of bar i of a shape that starts at 100
ShapeClose(shape, n, i) ==
  IF shape = "rise" THEN 100 + (i - 1)
  ELSE IF shape = "fall" THEN 100 - (i - 1)
  ELSE IF shape = "zigzag" THEN 100 + (i \div 2) * 2 - ((i - 1) \div 2)
  ELSE IF shape = "wave" THEN 100 + Wave(i)
  ELSE IF shape = "hill" THEN 100 + (IF i - 1 < n - i THEN i - 1 ELSE n - i)
  ELSE 100

\* the last bar may leave the shape
LastClose(shape, n, move) ==
  IF move = "crash" THEN 1
  ELSE IF move = "dip" THEN ShapeClose(shape, n, n) - 3
  ELSE IF move = "pop" THEN ShapeClose(shape, n, n) + 3
  ELSE IF move = "spike" THEN ShapeClose(shape, n, n) * 3
  ELSE ShapeClose(shape, n, n)

OhlcvBar(i, c) ==
  [timestamp |-> i, open |-> c, high |-> c + 1, low |-> c - 1, close |-> c, volume |-> 10]

Bars(n, shape, move) ==
  [i \in 1..n |-> OhlcvBar(i, IF i = n THEN LastClose(shape, n, move) ELSE ShapeClose(shape, n, i))]

\* OHLCV DataFrames, DataFrames without their volume column, and None
AnalysisFrames ==
  {NoFrame}
    \cup {Frame(cols, Bars(n, shape, move)) :
            cols \in {AllColumns, AllColumns \ {"volume"}, AllColumns \ {"high"}},
            n \in BarCounts, shape \in Shapes, move \in LastMoves}

SmcCall ==
  /\ call = NoCall
  /\ \E df \in AnalysisFrames :
       call' = [fn |-> "smc_analysis", df |-> df, out |-> smc_analysis(df),
                df_after |-> smc_df_after(df)]
  /\ UNCHANGED <<pageVars, adapterVars, alerts>>

SnrCall ==
  /\ call = NoCall
  /\ \E df \in AnalysisFrames :
       LET computed == snr_analysis(df).kind = "ok" /\ ~snr_guard(df)
       IN call' = [fn |-> "snr_analysis", df |-> df, out |-> snr_analysis(df),
                   computed |-> computed,
                   peaks |-> IF computed THEN snr_peaks(df.rows) ELSE {},
                   troughs |-> IF computed THEN snr_troughs(df.rows) ELSE {},
                   levels |-> IF computed THEN snr_levels(df.rows) ELSE <<>>,
                   momentum |-> IF computed THEN snr_momentum(df.rows)
                                ELSE [momentum_up |-> FALSE, momentum_down |-> FALSE],
                   df_after |-> snr_df_after(df)]
  /\ UNCHANGED <<pageVars, adapterVars, alerts>>

NextAnalysis == SmcCall \/ SnrCall

SpecAnalysis == Init /\ [][NextAnalysis]_vars


(* -------------------- claims on the analysis functions ----------------- *)
Smc == call.fn = "smc_analysis"
Snr == call.fn = "snr_analysis"
\* the argument is None or a DataFrame with all the OHLCV columns
Ohlcv == call.df.kind = "none" \/ AllColumns \subseteq call.df.columns
BarCount == Len(call.df.rows)
FinalClose == call.df.rows[BarCount].close

\* C16: on fewer than 20 bars smc_analysis, and on fewer than 14 bars
\* snr_analysis, return their default result (price 0, recommendation
\* 'neutral') and raise nothing; on exactly 20 and exactly 14 bars they
\* return, again without raising, a result computed from the bars, its price
\* being the last close.
C16_MinimumLength ==
  /\ (Smc /\ Ohlcv /\ BarCount < 20)
       => (call.out.kind = "ok" /\ call.out.price = 0
           /\ call.out.market_structure = "neutral" /\ call.out.trend_strength = 50
           /\ call.out.recommendation = "neutral")
  /\ (Smc /\ Ohlcv /\ BarCount = 20)
       => (call.out.kind = "ok" /\ call.out.price = FinalClose
           /\ call.out.market_structure \in {"bullish", "bearish"})
  /\ (Snr /\ Ohlcv /\ BarCount < 14)
       => (call.out.kind = "ok" /\ call.out.price = 0 /\ call.out.rsi = 5000
           /\ call.out.recommendation = "neutral")
  /\ (Snr /\ Ohlcv /\ BarCount = 14)
       => (call.out.kind = "ok" /\ call.out.price = FinalClose)

\* smc_analysis on exactly 20 bars
C16_Witness ==
  /\ Smc
  /\ Ohlcv
  /\ BarCount = 20
  /\ call.out.price = FinalClose
  /\ call.out.trend_strength # 50

\* C17: on at least 20 bars with strictly rising closes smc_analysis returns
\* market_structure 'bullish', a recommendation of buy or neutral and a
\* trend_strength of at least 0.5.
C17_RisingIsBullish ==
  (Smc /\ Ohlcv /\ BarCount >= 20
     /\ \A i \in 1..(BarCount - 1) : call.df.rows[i].close < call.df.rows[i + 1].close)
    => (/\ call.out.market_structure = "bullish"
        /\ call.out.recommendation \in {"buy", "neutral"}
        /\ call.out.trend_strength >= 50)

\* C18: on at least 20 bars the recommendation is buy exactly when the
\* structure is bullish and the last close is above sma20, sell exactly when
\* the structure is bearish and the last close is below sma20, and neutral
\* otherwise.
C18_Recommendation ==
  (Smc /\ Ohlcv /\ BarCount >= 20)
    => LET above == 20 * FinalClose > Sum20(call.df.rows)
           below == 20 * FinalClose < Sum20(call.df.rows)
           ms == call.out.market_structure
           rec == call.out.recommendation
       IN /\ (rec = "buy") = (ms = "bullish" /\ above)
          /\ (rec = "sell") = (ms = "bearish" /\ below)
          /\ (rec = "neutral") = ~((ms = "bullish" /\ above) \/ (ms = "bearish" /\ below))

\* a close above sma20 under a bearish structure: neutral, not buy
C18_Witness ==
  /\ Smc
  /\ Ohlcv
  /\ BarCount >= 20
  /\ call.out.market_structure = "bearish"
  /\ 20 * FinalClose > Sum20(call.df.rows)
  /\ call.out.recommendation = "neutral"

\* C19: the trend_strength smc_analysis returns is within [0, 1]: within
\* [0.5, 0.9] under a bullish structure and within [0.3, 0.7] under a bearish
\* one, whatever the ratio of the last close to sma20.
C19_TrendStrengthBounded ==
  (Smc /\ call.out.kind = "ok")
    => (/\ 0 <= call.out.trend_strength
        /\ call.out.trend_strength <= 100
        /\ call.out.market_structure = "bullish"
             => (50 <= call.out.trend_strength /\ call.out.trend_strength <= 90)
        /\ call.out.market_structure = "bearish"
             => (30 <= call.out.trend_strength /\ call.out.trend_strength <= 70))

\* a bullish structure whose last close is under half of sma20
C19_Witness ==
  /\ Smc
  /\ call.out.kind = "ok"
  /\ call.out.market_structure = "bullish"
  /\ 40 * FinalClose < Sum20(call.df.rows)
  /\ call.out.trend_strength = 50

\* the close-to-close changes the 14-row window of the last row holds
WindowChanges == {i \in 2..BarCount : i >= BarCount - 13}

\* C20: the rsi snr_analysis reports is within [0, 100]; it is 100, with
\* overbought True, when every change in the last window is a gain; it is 50
\* when there are fewer than 14 bars or the window holds neither a gain nor
\* a loss.
C20_RsiBounded ==
  (Snr /\ call.out.kind = "ok")
    => (/\ 0 <= call.out.rsi
        /\ call.out.rsi <= 10000
        /\ (BarCount >= 14
              /\ \A i \in WindowChanges : call.df.rows[i].close > call.df.rows[i - 1].close)
             => (call.out.rsi = 10000 /\ call.out.overbought)
        /\ (BarCount < 14
              \/ \A i \in WindowChanges : call.df.rows[i].close = call.df.rows[i - 1].close)
             => call.out.rsi = 5000)

\* 14 gains in a row
C20_Witness ==
  /\ Snr
  /\ BarCount >= 15
  /\ \A i \in WindowChanges : call.df.rows[i].close > call.df.rows[i - 1].close
  /\ call.out.rsi = 10000
  /\ call.out.overbought


(* ------------------------- claims, continued --------------------------- *)
BinanceRun == adapter.name = "binance" /\ adapter.history

\* the counters of a get_binance_price call stay within the mirrors, the
\* retries and the fallback exchanges there are
BinanceBounds ==
  BinanceRun
    => /\ adapter.mirror \in 1..NumMirrors
       /\ adapter.retry_count \in 0..(max_retries - 1)
       /\ adapter.exchange \in 1..NumExchanges
       /\ adapter.fetches <= max_retries * NumMirrors + NumExchanges
       /\ adapter.pc = "mirror"
            => adapter.fetches <= max_retries * (adapter.mirror - 1) + adapter.retry_count
       /\ adapter.pc = "exchange"
            => adapter.fetches <= max_retries * NumMirrors + adapter.exchange - 1

MovedOn ==
  \/ adapter'.pc = "mirror" /\ adapter'.mirror = adapter.mirror + 1 /\ adapter'.retry_count = 0
  \/ adapter'.pc = "exchange" /\ adapter.mirror = NumMirrors

\* what one fetch_ohlcv does to the counters
BinanceStep ==
  (BinanceRun /\ adapter'.fetches = adapter.fetches + 1)
    => /\ adapter.pc \in {"mirror", "exchange"}
       /\ adapter.pc = "mirror"
            => /\ adapter'.last = "ok" => (adapter'.pc = "done" /\ adapterOut'.kind = "df")
               /\ adapter'.last \in {"ddos", "ratelimit", "invalid", "other"}
                    => IF adapter.retry_count + 1 < max_retries
                       THEN /\ adapter'.pc = "mirror"
                            /\ adapter'.mirror = adapter.mirror
                            /\ adapter'.retry_count = adapter.retry_count + 1
                       ELSE MovedOn
               /\ adapter'.last \in {"network", "empty"} => MovedOn
       /\ adapter.pc = "exchange"
            => \/ adapter'.pc = "done" /\ adapterOut'.kind = "df" /\ adapter'.last = "ok"
               \/ adapter'.pc = "done" /\ adapterOut' = None /\ adapter.exchange = NumExchanges
               \/ adapter'.pc = "exchange" /\ adapter'.exchange = adapter.exchange + 1

\* C21: a get_binance_price call ends, whatever the exchanges answer: a
\* mirror is fetched at most max_retries times (a rate limit, a DDoS
\* protection or invalid data stays on the mirror, a network error or an
\* empty answer goes to the next one), so the mirrors take at most 3 x 8
\* fetches; each fallback exchange is then fetched at most once; the call
\* returns a DataFrame or None.
C21_BinanceTerminates ==
  /\ []BinanceBounds
  /\ [][BinanceStep]_vars
  /\ (At("binance", "called") ~> (adapter.pc = "done" /\ adapterOut.kind \in {"df", "none"}))

\* every mirror fetched three times and every exchange once, all in vain
C21_Witness ==
  /\ BinanceRun
  /\ adapter.pc = "done"
  /\ adapter.fetches = max_retries * NumMirrors + NumExchanges
  /\ adapterOut = None


\* the lookup gave no usable price: it raised or timed out, the status was
\* not 200, the answer had no price for the coin, or the price was not positive
LookupFailed == call.ref.kind # "price" \/ call.ref.usd <= 0

\* C22: when the reference-price lookup fails in any way, the validator
\* still returns a verdict, and that verdict is the one of the range (or
\* generic) checks alone on a sequence that passed the outright checks.
C22_LookupBestEffort ==
  (Verified /\ LookupFailed)
    => /\ call.out \in BOOLEAN
       /\ call.out = (~verify_outright(call.df) /\ verify_range(call.df, call.base_coin))

\* a sequence accepted although the lookup raised
C22_Witness ==
  /\ Verified
  /\ call.ref.kind = "raise"
  /\ call.df.rows # <<>>
  /\ call.out = TRUE

\* snr_analysis went past its guard and computed a result
SnrComputed == Snr /\ call.computed

\* the bars of the 3-window on each side of bar i
Neighbours(i) == ((i - 3)..(i + 3)) \ {i}
\* bar i has all 6 neighbours
Inner(i) == i >= 4 /\ i <= BarCount - 3

\* C23: bar i is a peak iff it has 3 bars on each side and its high is
\* strictly greater than the high of each of them, and a trough iff its low
\* is strictly less than the low of each of them; a bar that ties with a
\* neighbour, and any of the first or last 3 bars, is neither.
C23_PeaksAndTroughs ==
  SnrComputed =>
    \A i \in 1..BarCount :
      /\ i \in call.peaks
           <=> (Inner(i) /\ \A j \in Neighbours(i) : call.df.rows[i].high > call.df.rows[j].high)
      /\ i \in call.troughs
           <=> (Inner(i) /\ \A j \in Neighbours(i) : call.df.rows[i].low < call.df.rows[j].low)

\* a result with a peak, a trough, and an inner bar that only ties for the
\* lowest low of its window
C23_Witness ==
  /\ SnrComputed
  /\ call.peaks # {}
  /\ call.troughs # {}
  /\ \E i \in 4..(BarCount - 3) :
       /\ \A j \in Neighbours(i) : call.df.rows[i].low <= call.df.rows[j].low
       /\ \E j \in Neighbours(i) : call.df.rows[i].low = call.df.rows[j].low
       /\ i \notin call.troughs

\* every bar has low <= high
LowBelowHigh == \A i \in 1..BarCount : call.df.rows[i].low <= call.df.rows[i].high

\* C24: on at least 14 bars with low <= high the levels are ordered
\* strong_support <= near_support <= last close <= near_resistance <=
\* strong_resistance; near_resistance is the lowest resistance level and
\* near_support the highest support level, strong_* the next one; no support
\* level lies above and no resistance level below the last close. Prices are
\* compared times 14.
C24_LevelsOrdered ==
  (SnrComputed /\ LowBelowHigh) =>
    LET l == call.levels
        res == l.resistance_levels
        sup == l.support_levels
    IN /\ l.strong_support <= l.near_support
       /\ l.near_support <= 14 * FinalClose
       /\ 14 * FinalClose <= l.near_resistance
       /\ l.near_resistance <= l.strong_resistance
       /\ \A i \in 1..Len(res) : res[i] >= l.near_resistance /\ res[i] >= 14 * FinalClose
       /\ \A i \in 2..Len(res) : res[i] >= l.strong_resistance
       /\ \A i \in 1..Len(sup) : sup[i] <= l.near_support /\ sup[i] <= 14 * FinalClose
       /\ \A i \in 2..Len(sup) : sup[i] <= l.strong_support

\* two troughs below the last close, the later one the higher, so that the
\* sort changes their order
C24_Witness ==
  /\ SnrComputed
  /\ LowBelowHigh
  /\ \E i, j \in call.troughs :
       /\ i < j
       /\ call.df.rows[i].low < call.df.rows[j].low
       /\ call.df.rows[j].low < FinalClose
       /\ call.levels.near_support = 14 * call.df.rows[j].low
       /\ call.levels.strong_support = 14 * call.df.rows[i].low

\* C25: on at least 14 bars the recommendation is 'buy' exactly when
\* oversold (rsi < 30), 'sell' exactly when overbought (rsi > 70), 'neutral'
\* otherwise; overbought and oversold are never both True, nor are
\* momentum_up and momentum_down.
C25_SnrRecommendation ==
  (Snr /\ BarCount >= 14 /\ call.out.kind = "ok") =>
    /\ call.out.recommendation = "buy" <=> call.out.oversold
    /\ call.out.recommendation = "sell" <=> call.out.overbought
    /\ call.out.recommendation = "neutral" <=> (~call.out.oversold /\ ~call.out.overbought)
    /\ ~(call.out.oversold /\ call.out.overbought)
    /\ call.out.rsi < 3000 => call.out.oversold
    /\ call.out.oversold => call.out.rsi <= 3000
    /\ call.out.rsi > 7000 => call.out.overbought
    /\ call.out.overbought => call.out.rsi >= 7000
    /\ ~(call.momentum.momentum_up /\ call.momentum.momentum_down)

\* an oversold result with falling momentum
C25_Witness ==
  /\ SnrComputed
  /\ call.out.oversold
  /\ call.out.recommendation = "buy"
  /\ call.momentum.momentum_down

\* an overbought result with rising momentum
C25_WitnessSell ==
  /\ SnrComputed
  /\ call.out.overbought
  /\ call.out.recommendation = "sell"
  /\ call.momentum.momentum_up

\* C26: smc_analysis and snr_analysis leave the DataFrame passed by the
\* caller unchanged: the same bars and no added columns.
C26_InputUnchanged ==
  (Smc \/ Snr) => call.df_after = call.df

(* --------------------------- the alert scheduler ------------------------ *)
\* BackgroundScheduler instances created in one session
MaxSchedulers == 9

\* which library call of start_auto_alerts / stop_auto_alerts raises
Failures == {"none", "shutdown", "add_job", "start"}

Returned(fn, value, s) == [fn |-> fn, value |-> value, flag_before |-> s.auto_alert_running]

\* start_auto_alerts(interval_minutes, symbols); the immediate
\* auto_analyze_job() at its end catches its own exceptions
start_auto_alerts(s, fail) ==
  LET cur == s.instances[s.scheduler]
      \* if scheduler.running: scheduler.shutdown()
      stopped == IF cur.running THEN [s.instances EXCEPT ![s.scheduler].running = FALSE]
                 ELSE s.instances
      new == Len(stopped) + 1
      \* scheduler = BackgroundScheduler(); auto_alert_running = True
      created == [s EXCEPT !.instances = Append(stopped, NewScheduler),
                           !.scheduler = new,
                           !.auto_alert_running = TRUE]
  IN IF cur.running /\ fail = "shutdown"
     THEN [s EXCEPT !.returned = Returned("start_auto_alerts", FALSE, s)]
     ELSE IF fail = "add_job"
     THEN [created EXCEPT !.returned = Returned("start_auto_alerts", FALSE, s)]
     ELSE IF fail = "start"
     THEN [created EXCEPT !.instances[new].job = TRUE,
                          !.returned = Returned("start_auto_alerts", FALSE, s)]
     ELSE [created EXCEPT !.instances[new] = [running |-> TRUE, job |-> TRUE],
                          !.returned = Returned("start_auto_alerts", TRUE, s)]

stop_auto_alerts(s, fail) ==
  LET cur == s.instances[s.scheduler]
  IN IF cur.running /\ fail = "shutdown"
     THEN [s EXCEPT !.returned = Returned("stop_auto_alerts", FALSE, s)]
     ELSE [s EXCEPT !.instances[s.scheduler].running = FALSE,
                    !.auto_alert_running = FALSE,
                    !.returned = Returned("stop_auto_alerts", TRUE, s)]

\* auto_restart_auto_alerts(): both WHATSAPP_AVAILABLE branches start the
\* alerts when a phone number is set
auto_restart_auto_alerts(s, fail) ==
  IF ~s.auto_alert_running THEN s
  ELSE IF s.whatsapp_phone THEN start_auto_alerts(s, fail)
  ELSE [s EXCEPT !.auto_alert_running = FALSE]

\* what the user did to cause the run: nothing (a timer or another widget),
\* edited the phone number, pressed "start" or pressed "stop"
Clicks == {"none", "phone", "start", "stop"}

\* One run of the script, top to bottom: `scheduler = BackgroundScheduler()`
\* rebinds the module-level name, auto_restart_auto_alerts() is called, the
\* settings page then handles the button that was pressed. The start button
\* is enabled only with a phone number, the stop button only while
\* auto_alert_running is set.
ScriptRun ==
  \E click \in Clicks, f1, f2 \in Failures :
    /\ Len(alerts.instances) + 3 <= MaxSchedulers
    /\ click = "start" => alerts.whatsapp_phone
    /\ LET typed == IF click = "phone"
                    THEN [alerts EXCEPT !.whatsapp_phone = ~@] ELSE alerts
           fresh == [typed EXCEPT !.instances = Append(@, NewScheduler),
                                  !.scheduler = Len(alerts.instances) + 1,
                                  !.returned = NoReturn]
           restarted == auto_restart_auto_alerts(fresh, f1)
       IN /\ click = "stop" => (alerts.auto_alert_running /\ restarted.auto_alert_running)
          /\ alerts' = IF click = "start" THEN start_auto_alerts(restarted, f2)
                       ELSE IF click = "stop" THEN stop_auto_alerts(restarted, f2)
                       ELSE restarted
    /\ UNCHANGED <<pageVars, adapterVars, call>>

\* a started scheduler's thread triggers auto_analyze_job when the interval
\* has passed, whether or not the module-level name still refers to it
Trigger ==
  \E i \in 1..Len(alerts.instances) :
    /\ alerts.instances[i].running
    /\ alerts.instances[i].job
    /\ alerts' = [alerts EXCEPT !.fired = i]
    /\ UNCHANGED <<pageVars, adapterVars, call>>

NextAlerts == ScriptRun \/ Trigger

SpecAlerts == Init /\ [][NextAlerts]_vars

\* the schedulers whose thread is running
RunningSchedulers == {i \in 1..Len(alerts.instances) : alerts.instances[i].running}
\* the scheduler the module-level name refers to
CurrentScheduler == alerts.instances[alerts.scheduler]

\* C27: at most one scheduler is running the periodic job, whatever runs
\* of the script and calls of start_auto_alerts, stop_auto_alerts and
\* auto_restart_auto_alerts came before; once stop_auto_alerts has returned
\* True no scheduler is left to trigger auto_analyze_job.
C27_AtMostOneScheduler ==
  /\ Cardinality(RunningSchedulers) <= 1
  /\ (alerts.returned.fn = "stop_auto_alerts" /\ alerts.returned.value)
       => RunningSchedulers = {}

\* C28: when start_auto_alerts or stop_auto_alerts has returned,
\* auto_alert_running is True iff the current scheduler is running with the
\* job registered; it is False when start_auto_alerts returned False and
\* unchanged when stop_auto_alerts returned False.
C28_FlagAgrees ==
  alerts.returned.fn # "" =>
    /\ alerts.auto_alert_running <=> (CurrentScheduler.running /\ CurrentScheduler.job)
    /\ (alerts.returned.fn = "start_auto_alerts" /\ ~alerts.returned.value)
         => ~alerts.auto_alert_running
    /\ (alerts.returned.fn = "stop_auto_alerts" /\ ~alerts.returned.value)
         => alerts.auto_alert_running = alerts.returned.flag_before

(* --------------------------- alert conditions -------------------------- *)
\* how one POST of send_whatsapp_alert ends
SendOutcomes == {"no_key", "sent", "unparsed", "rejected", "raise"}

\* send_whatsapp_alert(phone_number, message): without WHATSAPP_MCP_KEY
\* nothing is posted; True only for status 200 with a body that parses
send_whatsapp_alert(outcome) ==
  [posted |-> outcome # "no_key", value |-> outcome = "sent"]

NotSent == [posted |-> FALSE, value |-> FALSE]
\* nothing sent for any strategy, False returned
NothingSent(text) == [sends |-> [k \in 1..Len(text.strategies) |-> NotSent], value |-> FALSE]

\* the score threshold lowered to 7
ScoreBelow7(score) == score < 7

\* if score < 8: continue
ScoreTooLow(score) == score < 8

\* the loop over strategy_matches from strategy k on; acc is what was done
\* for the strategies before k
RECURSIVE AlertLoop(_, _, _, _, _)
AlertLoop(text, settings, outcomes, k, acc) ==
  IF k > Len(text.strategies)
  THEN [sends |-> acc, value |-> \E i \in 1..Len(acc) : acc[i].value]
  ELSE IF ScoreTooLow(text.strategies[k].score) \/ ~text.strategies[k].content
  THEN AlertLoop(text, settings, outcomes, k + 1, Append(acc, NotSent))
  ELSE IF \/ ~settings.enable_alerts
          \/ ~settings.WHATSAPP_AVAILABLE
          \/ ~settings.whatsapp_phone
  THEN [sends |-> acc \o [i \in 1..(Len(text.strategies) - Len(acc)) |-> NotSent],
        value |-> FALSE]
  ELSE AlertLoop(text, settings, outcomes, k + 1,
                 Append(acc, send_whatsapp_alert(outcomes[k])))

\* check_alert_conditions(strategy_text, symbol, timeframe, confidence):
\* confidence in hundredths; text is what the regular expressions find in
\* strategy_text (the strategies with their score, whether the entry /
\* target / stop pattern matches for each, whether a current price is
\* found); sends[k] is what was done for strategy k, value the bool returned
check_alert_conditions(confidence, text, settings, outcomes) ==
  IF confidence < 70 THEN NothingSent(text)
  ELSE IF text.strategies = <<>> THEN NothingSent(text)
  ELSE IF ~text.price THEN NothingSent(text)
  ELSE AlertLoop(text, settings, outcomes, 1, <<>>)

Confidences == {50, 69, 70, 75}
Scores == {7, 8, 10}
MaxStrategies == 2
Strategy == [score : Scores, content : BOOLEAN]
StrategyLists == UNION {[1..n -> Strategy] : n \in 0..MaxStrategies}
Settings == [enable_alerts : BOOLEAN, WHATSAPP_AVAILABLE : BOOLEAN, whatsapp_phone : BOOLEAN]

CheckAlertCall ==
  /\ call = NoCall
  /\ \E confidence \in Confidences, strategies \in StrategyLists, price \in BOOLEAN,
        settings \in Settings :
       \E outcomes \in [1..Len(strategies) -> SendOutcomes] :
         LET text == [strategies |-> strategies, price |-> price]
         IN call' = [fn |-> "check_alert_conditions", confidence |-> confidence,
                     text |-> text, settings |-> settings, outcomes |-> outcomes,
                     out |-> check_alert_conditions(confidence, text, settings, outcomes)]
  /\ UNCHANGED <<pageVars, adapterVars, alerts>>

NextAlertCheck == CheckAlertCall

SpecAlertCheck == Init /\ [][NextAlertCheck]_vars

Checked == call.fn = "check_alert_conditions"

SpxOrder == <<"yahoo", "alphavantage", "synthetic">>

\* everything get_spx_data(timeframe, limit) can hand back
SpxResults(timeframe, limit) ==
  {out \in {spx_yahoo(timeframe, limit, resp) : resp \in YahooResponses} : out.kind = "df"}
    \cup {out \in {spx_alpha_vantage(timeframe, limit, resp) : resp \in AlphaResponses} :
            out.kind = "df"}
    \cup {get_crypto_data_except(spx_simulated(timeframe, limit, base_price, draws)) :
            base_price \in BasePrices, draws \in [1..limit -> Draws]}

====
